---- MODULE Spec2Model ----
(***************************************************************************)
(* Model of the asynchronous processing pipeline of the email support      *)
(* agent: process_email_task (apps/emails/tasks.py) running as concurrent  *)
(* Celery work items over one stored Email, together with                  *)
(* EmailSenderService.send_reply (apps/emails/services/email_sender.py).   *)
(*                                                                         *)
(* Every step of a work item ends with one write to the database: a call   *)
(* to a collaborator (reasoning service, SMTP server, broker) is one step   *)
(* with the writes that follow or precede it without another read, so that  *)
(* work items interleave between any two writes.  A Django save() writes    *)
(* every field of the in-memory object, which is why each work item keeps  *)
(* its own copy of the Email (obj) and of its EmailReply (reply).          *)
(* Confidences are in hundredths (0.8 is 80).                              *)
(***************************************************************************)
EXTENDS Integers, Sequences, FiniteSets, Bags, TLC

\* ------------------------------------------------------------- bounds

\* process_email_task.delay calls made for the message: the fetcher's one, then
\* those of bulk_process_emails_task.
MaxDeliveries == 2

\* Failures the external collaborators (reasoning service, SMTP server, broker)
\* inject in one behaviour of Spec.
MaxFaults == 1

\* Pieces (words, card numbers, SSNs, password key-values) a message body handed
\* to the agent is made of.
MaxPieces == 2

\* Unseen messages in the mailbox, and runs of fetch_emails_task over it.
MaxMailbox == 2
MaxFetches == 3

\* Requests the agents make to the API and the dashboard.
MaxRequests == 3

\* active staff users that escalation notifications go to, at most
MaxAdmins == 2

\* KnowledgeBase rows of the table a selection is made from, at most
MaxArticles == 4
\* initial use_count of a KnowledgeBase row, at most
MaxUseCount == 1
\* KnowledgeBase rows two workers share, at most, and work items that reach
\* the reply generation on such a table, at most
MaxSharedArticles == 2
MaxUses == 3

\* Two worker processes: the smallest pool in which a work item races another.
Workers == {1, 2}

\* ------------------------------------------------- program constants

\* @shared_task(bind=True, max_retries=3)
max_retries == 3

\* countdown=60 * (2 ** self.request.retries)
base_delay == 60

\* settings.EMAIL_AUTO_REPLY_THRESHOLD, in hundredths
EMAIL_AUTO_REPLY_THRESHOLD == 80

\* [:3], the number of articles handed to generate_reply at most
kb_limit == 3

\* ------------------------------------------------ collaborators' answers

\* What classify_email can return to the pipeline: the flag and the confidence
\* of a parsed answer.  [FALSE, 50] is also the fallback of an unparseable one;
\* the confidence plays no part in the routing, and it varies on the short
\* escalation path.
ClassifyResults ==
    { [requires_escalation |-> FALSE, confidence |-> 50],
      [requires_escalation |-> TRUE, confidence |-> 50],
      [requires_escalation |-> TRUE, confidence |-> 95] }

NoValue == [confidence |-> -1, requires_review |-> FALSE]

\* What generate_reply can return to the pipeline.
GenerateResults ==
    [confidence : {79, 80, 81}, requires_review : BOOLEAN]

\* What the reasoning service can answer to the request of generate_reply: a
\* JSON object with the reply fields, a text json.loads rejects, or no answer
\* (the API call raises).  The last two are collaborator failures.
GenerateResponses(may_raise) ==
    [kind : {"json"}, value : GenerateResults]
        \cup (IF may_raise
              THEN {[kind |-> "not_json", value |-> NoValue],
                    [kind |-> "api_error", value |-> NoValue]}
              ELSE {})

NoClassification == [requires_escalation |-> FALSE, confidence |-> -1]
NoReplyData == [confidence |-> -1, requires_review |-> FALSE]
NoReply == [id |-> 0, status |-> "none", sent_at |-> FALSE]
NoObj == [status |-> "none", requires_escalation |-> FALSE,
          ai_classification_confidence |-> -1]
NoItem == [origin |-> "none", retries |-> 0, countdowns |-> <<>>]

\* EmailProcessingLog rows are (step, status, error_message); the table is kept
\* as the number of rows of each content.
LogKeys ==
    { <<"classification", "started", "">>,
      <<"classification", "completed", "">>,
      <<"reply_generation", "started", "">>,
      <<"reply_generation", "completed", "">>,
      <<"auto_send", "completed", "">>,
      <<"auto_send", "failed", "smtp_error">>,
      <<"processing", "failed", "classify_error">>,
      <<"processing", "failed", "generate_error">>,
      <<"processing", "failed", "generate_parse_error">>,
      <<"processing", "failed", "broker_error">> }

\* ------------------------------------------------------------ texts
\* A text is the sequence of its characters.

Digit == {"0", "1", "2", "3", "4", "5", "6", "7", "8", "9"}
DigitChar == <<"0", "1", "2", "3", "4", "5", "6", "7", "8", "9">>
Upper == {"A", "C", "D", "N", "O", "P", "R", "S", "W"}
Letter == {"a", "c", "d", "h", "i", "n", "o", "p", "r", "s", "w"} \cup Upper

\* \s, \S, \d and \w of the re module, on the characters the texts are made of
IsSpace(c) == c = " "
IsDigit(c) == c \in Digit
IsWord(c) == c \in Digit \cup Letter \cup {"_"}

\* str.lower() of one character (re.IGNORECASE)
Lower(c) ==
    CASE c = "A" -> "a" [] c = "C" -> "c" [] c = "D" -> "d" [] c = "N" -> "n"
      [] c = "O" -> "o" [] c = "P" -> "p" [] c = "R" -> "r" [] c = "S" -> "s"
      [] c = "W" -> "w" [] OTHER -> c

\* str(n)
RECURSIVE Str(_)
Str(n) == IF n < 10 THEN <<DigitChar[n + 1]>>
          ELSE Str(n \div 10) \o <<DigitChar[(n % 10) + 1]>>

Least(S) == CHOOSE x \in S : \A y \in S : x <= y
Greatest(S) == CHOOSE x \in S : \A y \in S : y <= x

\* old occurs in s at index i
StartsAt(s, i, old) ==
    /\ i + Len(old) - 1 <= Len(s)
    /\ \A k \in 1..Len(old) : s[i + k - 1] = old[k]

\* s[i:].replace(old, new): every occurrence found scanning from the left,
\* without overlaps, and nothing looked at again once replaced
RECURSIVE ReplaceFrom(_, _, _, _)
ReplaceFrom(s, i, old, new) ==
    LET found == {k \in i..Len(s) : StartsAt(s, k, old)}
    IN IF found = {} THEN SubSeq(s, i, Len(s))
       ELSE LET k == Least(found)
            IN SubSeq(s, i, k - 1) \o new \o ReplaceFrom(s, k + Len(old), old, new)

\* s.replace(old, new)
Replace(s, old, new) == ReplaceFrom(s, 1, old, new)

\* old in s
Contains(s, old) == \E i \in 1..Len(s) : StartsAt(s, i, old)

\* \b between s[i-1] and s[i]
Boundary(s, i) ==
    LET before == i > 1 /\ IsWord(s[i - 1])
        after == i <= Len(s) /\ IsWord(s[i])
    IN before # after

\* \d{n} at index i
Digits(s, i, n) ==
    /\ i + n - 1 <= Len(s)
    /\ \A k \in 0..(n - 1) : IsDigit(s[i + k])

\* length of [\s-]? at index i
OptSep(s, i) ==
    IF i <= Len(s) /\ (IsSpace(s[i]) \/ s[i] = "-") THEN 1 ELSE 0

NoMatch == [last |-> 0, from |-> 0]

\* cc_pattern = r'\b\d{4}[\s-]?\d{4}[\s-]?\d{4}[\s-]?\d{4}\b' matched at index i:
\* the match is s[i..last]
cc_pattern(s, i) ==
    LET g2 == i + 4 + OptSep(s, i + 4)
        g3 == g2 + 4 + OptSep(s, g2 + 4)
        g4 == g3 + 4 + OptSep(s, g3 + 4)
    IN IF /\ Boundary(s, i)
          /\ Digits(s, i, 4) /\ Digits(s, g2, 4)
          /\ Digits(s, g3, 4) /\ Digits(s, g4, 4)
          /\ Boundary(s, g4 + 4)
       THEN [last |-> g4 + 3, from |-> i]
       ELSE NoMatch

\* ssn_pattern = r'\b\d{3}-\d{2}-\d{4}\b' matched at index i
ssn_pattern(s, i) ==
    IF /\ Boundary(s, i)
       /\ Digits(s, i, 3)
       /\ i + 3 <= Len(s) /\ s[i + 3] = "-"
       /\ Digits(s, i + 4, 2)
       /\ i + 6 <= Len(s) /\ s[i + 6] = "-"
       /\ Digits(s, i + 7, 4)
       /\ Boundary(s, i + 11)
    THEN [last |-> i + 10, from |-> i]
    ELSE NoMatch

\* length of the longest run of characters of class [:\s] from index i
SepRun(s, i) ==
    Greatest({n \in 0..(Len(s) + 1 - i) :
                 \A k \in 0..(n - 1) : s[i + k] = ":" \/ IsSpace(s[i + k])})

\* length of the longest run of \S from index i
NonSpaceRun(s, i) ==
    Greatest({n \in 0..(Len(s) + 1 - i) : \A k \in 0..(n - 1) : ~IsSpace(s[i + k])})

\* r'<word>[:\s]+(\S+)' with re.IGNORECASE matched at index i: [:\s]+ takes the
\* longest run that still leaves a \S after it, and group 1 is s[from..last]
password_pattern(word, s, i) ==
    LET j == i + Len(word)
        seps == {k \in 1..SepRun(s, j) : j + k <= Len(s) /\ ~IsSpace(s[j + k])}
    IN IF /\ i + Len(word) - 1 <= Len(s)
          /\ \A k \in 1..Len(word) : Lower(s[i + k - 1]) = word[k]
          /\ seps # {}
       THEN LET k == Greatest(seps)
            IN [last |-> j + k + NonSpaceRun(s, j + k) - 1, from |-> j + k]
       ELSE NoMatch

PFX_CARD == <<"C", "A", "R", "D">>
PFX_SSN == <<"S", "S", "N">>
PFX_PASSWORD == <<"P", "A", "S", "S", "W", "O", "R", "D">>
WORD_password == <<"p", "a", "s", "s", "w", "o", "r", "d">>
WORD_pwd == <<"p", "w", "d">>
WORD_pass == <<"p", "a", "s", "s">>

\* the patterns of mask_sensitive_data, in the order it applies them, with the
\* prefix of their tokens
Patterns ==
    << [kind |-> "cc", word |-> <<>>, prefix |-> PFX_CARD],
       [kind |-> "ssn", word |-> <<>>, prefix |-> PFX_SSN],
       [kind |-> "password", word |-> WORD_password, prefix |-> PFX_PASSWORD],
       [kind |-> "password", word |-> WORD_pwd, prefix |-> PFX_PASSWORD],
       [kind |-> "password", word |-> WORD_pass, prefix |-> PFX_PASSWORD] >>

MatchAt(p, s, i) ==
    CASE p.kind = "cc" -> cc_pattern(s, i)
      [] p.kind = "ssn" -> ssn_pattern(s, i)
      [] p.kind = "password" -> password_pattern(p.word, s, i)

\* [match.group() for match in re.finditer(pattern, s)] from index i on (group
\* 1 for the password patterns); a match ending at e is s[i..e] and the search
\* goes on at e + 1
RECURSIVE FindIter(_, _, _)
FindIter(p, s, i) ==
    LET found == {k \in i..Len(s) : MatchAt(p, s, k).last > 0}
    IN IF found = {} THEN <<>>
       ELSE LET m == MatchAt(p, s, Least(found))
            IN <<SubSeq(s, m.from, m.last)>> \o FindIter(p, s, m.last + 1)

\* f"[CARD_{len(mapping)}]" and the like
Token(prefix, n) == <<"[">> \o prefix \o <<"_">> \o Str(n) \o <<"]">>

\* for match in re.finditer(pattern, text): masked = token; mapping[masked] =
\* value; masked_text = masked_text.replace(value, masked).  The mapping is the
\* dict in insertion order, as <<token, value>> pairs.
RECURSIVE MaskMatches(_, _, _)
MaskMatches(prefix, matches, m) ==
    IF matches = <<>> THEN m
    ELSE LET value == Head(matches)
             masked == Token(prefix, Len(m.mapping))
         IN MaskMatches(prefix, Tail(matches),
                        [text |-> Replace(m.text, value, masked),
                         mapping |-> Append(m.mapping, <<masked, value>>)])

RECURSIVE MaskPatterns(_, _, _)
MaskPatterns(ps, text, m) ==
    IF ps = <<>> THEN m
    ELSE MaskPatterns(Tail(ps), text,
                      MaskMatches(Head(ps).prefix, FindIter(Head(ps), text, 1), m))

\* ClaudeEmailAgent.mask_sensitive_data(text) -> (masked_text, mapping)
mask_sensitive_data(text) ==
    MaskPatterns(Patterns, text, [text |-> text, mapping |-> <<>>])

\* ClaudeEmailAgent.unmask_sensitive_data(text, mapping): for masked, original
\* in mapping.items(): result = result.replace(masked, original)
RECURSIVE unmask_sensitive_data(_, _)
unmask_sensitive_data(text, mapping) ==
    IF mapping = <<>> THEN text
    ELSE unmask_sensitive_data(Replace(text, Head(mapping)[1], Head(mapping)[2]),
                               Tail(mapping))

\* ------------------------------------------------ ClaudeEmailAgent calls

\* pieces the message texts are made of: plain words, a card number, an SSN
\* and two password key-values whose values are single digits
Hi == <<"h", "i">>
Card == <<"4", "1", "1", "1", "1", "1", "1", "1", "1", "1", "1", "1", "1", "1", "1", "1">>
Ssn == <<"1", "2", "3", "-", "4", "5", "-", "6", "7", "8", "9">>
Pwd0 == <<"p", "w", "d", ":", " ", "0">>
Pwd1 == <<"p", "w", "d", ":", " ", "1">>
Pieces == {Hi, Card, Ssn, Pwd0, Pwd1}

\* ' '.join(ps)
RECURSIVE Join(_)
Join(ps) ==
    IF Len(ps) = 1 THEN ps[1] ELSE ps[1] \o <<" ">> \o Join(Tail(ps))

\* bodies of up to MaxPieces pieces, and the subjects
Bodies == {Join(ps) : ps \in UNION {[1..n -> Pieces] : n \in 1..MaxPieces}}
Subjects == {Hi, Card}

\* EmailCategory rows: the names of CATEGORY_CHOICES
Categories ==
    {"billing", "technical", "sales", "general", "complaint", "feature_request",
     "other"}

\* the classification classify_email returns when json.loads fails
default_classification ==
    [category |-> "general", confidence |-> 50, priority |-> "medium",
     sentiment |-> "neutral", requires_escalation |-> FALSE]

\* classifications the reasoning service can put in its JSON answer; legal is
\* no configured category, and 150 (1.5, confidences being kept in hundredths)
\* is no confidence
AnsweredClassifications ==
    { default_classification,
      [category |-> "billing", confidence |-> 95, priority |-> "high",
       sentiment |-> "negative", requires_escalation |-> FALSE],
      [category |-> "billing", confidence |-> 150, priority |-> "high",
       sentiment |-> "negative", requires_escalation |-> FALSE],
      [category |-> "legal", confidence |-> 95, priority |-> "urgent",
       sentiment |-> "negative", requires_escalation |-> TRUE] }

\* The text of an answer is a sequence of parts: "J" is the JSON object the
\* prompt asks for (its content is the answer's value), "N" is another JSON
\* value (null), "G" is prose, "ws" is white space, and the fence parts are the
\* markdown code fence markers around a JSON block: fence_open is the opening
\* marker with the language tag json and its line end, fence_open_bare the
\* opening marker without a tag and its line end, fence_close the line end and
\* the closing marker.
Fences == {"fence_open", "fence_close"}
AnswerTexts ==
    { <<"J">>, <<"fence_open", "J", "fence_close">>, <<"N">>, <<"G">>, <<"G", "J">>, <<>>,
      <<"ws", "fence_open", "J", "fence_close", "ws">>,
      <<"fence_open_bare", "J", "fence_close">> }

NotFence(part) == part \notin Fences

NotSpace(part) == part # "ws"

\* str.strip()
RECURSIVE Strip(_)
Strip(text) ==
    IF text # <<>> /\ text[1] = "ws" THEN Strip(Tail(text))
    ELSE IF text # <<>> /\ text[Len(text)] = "ws"
         THEN Strip(SubSeq(text, 1, Len(text) - 1))
         ELSE text

\* response.content[0].text.strip(), then
\* response_text.replace(<opening fence, json, line end>, '').replace(<line end,
\* closing fence>, '').strip()
strip_fences(text) == Strip(SelectSeq(Strip(text), NotFence))

\* json.loads(text) succeeds; white space around the value is accepted
ValidJson(text) == SelectSeq(text, NotSpace) \in {<<"J">>, <<"N">>}

\* how the try block of classify_email and generate_reply ends on an answer:
\* the API call raises, json.loads raises JSONDecodeError, the parsed value is
\* no object with the keys read (another exception), or it is one
answer_kind(a) ==
    IF a.api_error THEN "api_error"
    ELSE IF ~ValidJson(strip_fences(a.text)) THEN "not_json"
    ELSE IF SelectSeq(strip_fences(a.text), NotSpace) = <<"N">> THEN "other_error"
    ELSE "json"

NoAnswer == [api_error |-> FALSE, text |-> <<"none">>,
             value |-> default_classification, reply |-> <<>>]
NoResult == [raised |-> FALSE, error |-> "", value |-> default_classification,
             reply |-> <<>>]

\* a classify_email that raises on an answer json.loads rejects
classify_email_raising(a) ==
    IF answer_kind(a) = "json"
    THEN [raised |-> FALSE, error |-> "", value |-> a.value, reply |-> <<>>]
    ELSE [raised |-> TRUE, error |-> "classify_error",
          value |-> default_classification, reply |-> <<>>]

\* ClaudeEmailAgent.classify_email from the answer on: result =
\* json.loads(response_text); return result.  except json.JSONDecodeError:
\* return the default classification; except Exception: raise
classify_email(a) ==
    CASE answer_kind(a) = "json" ->
            [raised |-> FALSE, error |-> "", value |-> a.value, reply |-> <<>>]
      [] answer_kind(a) = "not_json" ->
            [raised |-> FALSE, error |-> "", value |-> default_classification,
             reply |-> <<>>]
      [] answer_kind(a) \in {"api_error", "other_error"} ->
            [raised |-> TRUE, error |-> "classify_error",
             value |-> default_classification, reply |-> <<>>]

\* what analyze_sentiment returns on any exception
default_sentiment ==
    [sentiment |-> "neutral", confidence |-> 50, urgency_level |-> 3]

\* ClaudeEmailAgent.analyze_sentiment from the answer on: return
\* json.loads(response_text); except Exception: return the default
analyze_sentiment(a) ==
    [raised |-> FALSE, error |-> "",
     value |-> IF answer_kind(a) \in {"json", "other_error"} THEN a.value
               ELSE default_sentiment,
     reply |-> <<>>]

\* names of a customer: none (the empty string or null) and two names
Ann == <<"A", "n", "n">>
Bob == <<"B", "o", "b">>
Names == {<<>>, Ann, Bob}

\* extracted_info of a classification as far as the customer name goes: the
\* key customer_name is there or not, and its value
ExtractedNames == {[present |-> FALSE, name |-> <<>>]} \cup [present : {TRUE}, name : Names]

\* customer_name = email.ai_extracted_info.get('customer_name', email.from_name)
customer_name(info, sender) == IF info.present THEN info.name ELSE sender

\* customer_greeting = f"Dear {customer_name}," if customer_name else "Hello,";
\* f"{customer_greeting}\n\n"
customer_greeting(name) ==
    (IF name # <<>> THEN <<"D", "e", "a", "r", " ">> \o name \o <<",">>
     ELSE <<"H", "e", "l", "l", "o", ",">>) \o <<"\n", "\n">>

\* result['reply'] = self.unmask_sensitive_data(result['reply'], mapping);
\* result['reply'] = f"{customer_greeting}\n\n{result['reply']}"
unmasked_reply(text, map, name) ==
    customer_greeting(name) \o unmask_sensitive_data(text, map)

VARIABLES
    from_name,     \* email.from_name of the message
    extracted_name, \* the customer name part of email.ai_extracted_info
    subject,       \* email.subject of the message handed to the agent
    body,          \* email.body of the message handed to the agent
    method,        \* the ClaudeEmailAgent method called, "none" before the call
    request,       \* the message texts in the prompt sent to the service
    mapping,       \* the token map of the call
    answer,        \* the answer of the reasoning service
    result         \* what the method returned, or that it raised

agent_vars == <<from_name, extracted_name, subject, body, method, request, mapping,
               answer, result>>

\* no agent call is looked at
AgentIdle ==
    /\ from_name = <<>>
    /\ extracted_name = [present |-> FALSE, name |-> <<>>]
    /\ subject = <<>>
    /\ body = <<>>
    /\ method = "none"
    /\ request = <<>>
    /\ mapping = <<>>
    /\ answer = NoAnswer
    /\ result = NoResult

\* ------------------------------------------------ the fetcher's state

\* fetch_emails_task work items that run at the same time
Fetchers == {1, 2}

\* Message-ID headers in the mailbox
MessageIds == {"a", "b"}

VARIABLES
    mailbox,       \* the Message-IDs of the unseen messages in the IMAP mailbox
    stored,        \* the Email table: rows in the order of their creation
    fetches,       \* fetch_emails_task runs started so far
    fetch_pc,      \* each fetch task's position
    fetch_pos,     \* index in the mailbox of the message the task is parsing
    created,       \* created_emails of the task
    queued         \* Message-IDs process_email_task.delay was called for

fetch_vars == <<mailbox, stored, fetches, fetch_pc, fetch_pos, created, queued>>

\* no fetch is looked at
FetchIdle ==
    /\ mailbox = <<>>
    /\ stored = <<>>
    /\ fetches = 0
    /\ fetch_pc = [f \in Fetchers |-> "idle"]
    /\ fetch_pos = [f \in Fetchers |-> 0]
    /\ created = [f \in Fetchers |-> <<>>]
    /\ queued = EmptyBag

\* ------------------------------------------------ the API's state

VARIABLES
    requests,      \* API and dashboard requests made so far
    sending,       \* id of the EmailReply an API request is handing to
                   \* send_reply, 0 when there is none
    was_rejected,  \* history: ids of the EmailReply rows ever saved as rejected
    operator_status, \* history: the status an operator gave the message while
                   \* the current run of process_email_task was in flight,
                   \* "" when there is none
    response       \* the last request to EmailReplyViewSet that was looked at:
                   \* its action, the id of its EmailReply, the id of the row
                   \* it answers with, and its HTTP status (0 while it is in
                   \* send_reply)

api_vars == <<requests, sending, was_rejected, operator_status, response>>

NoResponse == [action |-> "", id |-> 0, reply |-> 0, status |-> 0]

\* no API request is looked at
ApiIdle ==
    /\ requests = 0 /\ sending = 0 /\ was_rejected = {} /\ operator_status = ""
    /\ response = NoResponse

\* ------------------------------------------------ the notification task's state

VARIABLES
    admins,        \* number of User rows with is_staff and is_active
    notify_pc,     \* position of send_escalation_notification_task
    notify_pos,    \* index in admin_emails of the recipient the loop is at
    notified       \* what send_notification returned for each recipient of
                   \* the task's run so far

notify_vars == <<admins, notify_pc, notify_pos, notified>>

\* no notification task is looked at
NotifyIdle == admins = 0 /\ notify_pc = "idle" /\ notify_pos = 0 /\ notified = <<>>

\* ------------------------------------------------ the KnowledgeBase table

VARIABLES
    kb,            \* the stored KnowledgeBase rows, by id
    kb0,           \* history: the rows as they were at the start
    credited,      \* history: per row, the generate_reply calls that returned
                   \* and named it in used_articles
    uses,          \* work items that reached the reply generation so far
    kb_pc,         \* each worker's position in lines 109-146
    kb_category,   \* the category the worker's classification assigned
    kb_articles,   \* the worker's kb_articles list of in-memory rows
    kb_i           \* index in kb_articles of the row the loop is at

kb_vars == <<kb, kb0, credited, uses, kb_pc, kb_category, kb_articles, kb_i>>

\* KnowledgeBase rows with their category, is_active and use_count
ArticleRows ==
    [category : {"billing", "technical"}, is_active : BOOLEAN,
     use_count : 0..MaxUseCount]

\* tables a selection is made from
Tables == UNION {[1..n -> ArticleRows] : n \in 0..MaxArticles}

\* tables of active articles of one category, none of them used yet
SharedTables ==
    UNION {[1..n -> {[category |-> "billing", is_active |-> TRUE, use_count |-> 0]}] :
               n \in 1..MaxSharedArticles}

\* the table is empty and no worker is at the reply generation
KbIdle ==
    /\ kb = <<>>
    /\ kb0 = <<>>
    /\ credited = <<>>
    /\ uses = 0
    /\ kb_pc = [w \in Workers |-> "idle"]
    /\ kb_category = [w \in Workers |-> "none"]
    /\ kb_articles = [w \in Workers |-> <<>>]
    /\ kb_i = [w \in Workers |-> 0]

\* ------------------------------------------------ the pipeline's state

VARIABLES
    email,          \* the stored Email row
    replies,        \* the stored EmailReply rows of the message, by id
    log,            \* the stored EmailProcessingLog rows of the message
    outbox,         \* replies the SMTP server accepted for the customer
    notifications,  \* send_escalation_notification_task items queued
    queue,          \* process_email_task work items waiting in the broker
    delivered,      \* process_email_task.delay calls made so far
    faults,         \* failures the collaborators injected so far
    pc,             \* each worker's position in process_email_task
    item,           \* the work item the worker runs (self.request)
    obj,            \* the worker's in-memory Email
    classification, \* the worker's classification dict
    reply_data,     \* the worker's reply_data dict
    reply,          \* the worker's in-memory EmailReply
    err,            \* the exception the worker is handling
    send_result     \* how the invocation's send_reply call ended

vars == <<email, replies, log, outbox, notifications, queue, delivered, faults,
          pc, item, obj, classification, reply_data, reply, err, send_result,
          from_name, extracted_name,
          subject, body, method, request, mapping, answer, result,
          operator_status, response,
          mailbox, stored, fetches, fetch_pc, fetch_pos, created, queued,
          requests, sending, was_rejected,
          admins, notify_pc, notify_pos, notified,
          kb, kb0, credited, uses, kb_pc, kb_category, kb_articles, kb_i>>

shared == <<email, replies, log, outbox, notifications, queue, delivered, faults>>
locals == <<item, obj, classification, reply_data, reply, err, send_result>>

\* ------------------------------------------------------------ helpers

\* 2 ** n
RECURSIVE Pow2(_)
Pow2(n) == IF n = 0 THEN 1 ELSE 2 * Pow2(n - 1)

\* EmailProcessingLog.objects.create(email=email, step=, status=, error_message=)
LogCreate(l, step, status, error) ==
    [l EXCEPT ![<<step, status, error>>] = @ + 1]

\* a linear backoff in place of the exponential one
retry_countdown_linear(n) == base_delay * (n + 1)

\* countdown=60 * (2 ** self.request.retries)
retry_countdown(n) == base_delay * Pow2(n)

\* an escalation flag honoured only above a confidence cutoff
after_classification_confident(o) ==
    IF ~o.requires_escalation \/ o.ai_classification_confidence < 60
    THEN "generate" ELSE "escalate"

\* if not email.requires_escalation: ... else: ...
after_classification(o) ==
    IF ~o.requires_escalation THEN "generate" ELSE "escalate"

\* a strict comparison with the threshold
auto_send_condition_strict(rd) ==
    rd.confidence > EMAIL_AUTO_REPLY_THRESHOLD /\ ~rd.requires_review

\* an auto-send that also looks at what was already sent for the message
auto_send_condition_once(rd) ==
    rd.confidence >= EMAIL_AUTO_REPLY_THRESHOLD /\ ~rd.requires_review /\ outbox = 0

\* the condition of the auto-send branch
auto_send_condition(rd) ==
    rd.confidence >= EMAIL_AUTO_REPLY_THRESHOLD /\ ~rd.requires_review

\* a generate_reply that answers a parse failure with a default needing review
generate_reply_defaulting(resp) ==
    IF resp.kind \in {"api_error", "other_error"}
    THEN [raised |-> TRUE, error |-> "generate_error", value |-> NoValue]
    ELSE [raised |-> FALSE, error |-> "",
          value |-> IF resp.kind = "json" THEN resp.value
                    ELSE [confidence |-> 50, requires_review |-> TRUE]]

\* ClaudeEmailAgent.generate_reply from the answer on: result =
\* json.loads(response_text); return result.  except json.JSONDecodeError: raise;
\* except Exception: raise
generate_reply(resp) ==
    CASE resp.kind = "json" ->
            [raised |-> FALSE, error |-> "", value |-> resp.value]
      [] resp.kind = "not_json" ->
            [raised |-> TRUE, error |-> "generate_parse_error", value |-> NoValue]
      [] resp.kind \in {"api_error", "other_error"} ->
            [raised |-> TRUE, error |-> "generate_error", value |-> NoValue]

\* an auto-send failure that leaves no audit entry
auto_send_failed_silent(l, e) == l

\* except Exception as send_error: EmailProcessingLog.objects.create(email=email,
\* step='auto_send', status='failed', error_message=str(send_error))
auto_send_failed(l, e) == LogCreate(l, "auto_send", "failed", e)

\* status of the EmailReply the pipeline creates
created_reply_status(rd) ==
    IF rd.requires_review THEN "pending_approval" ELSE "draft"

\* reply.save() of an in-memory EmailReply
ReplySave(rs, r) ==
    [rs EXCEPT ![r.id].status = r.status, ![r.id].sent_at = r.sent_at]

\* a failure handler that leaves the status as the pipeline set it
handler_status_kept == "processing"

\* status the failure handler writes
handler_status == "new"

\* a retry that compares with max_retries one too late
retry_once_more(q, it) ==
    IF it.retries <= max_retries
    THEN q (+) SetToBag({[origin |-> it.origin,
                          retries |-> it.retries + 1,
                          countdowns |-> Append(it.countdowns,
                                                base_delay * Pow2(it.retries))]})
    ELSE q

\* self.retry(exc=e, countdown=...): the work item goes back to the broker with
\* retries + 1 and that countdown, unless max_retries is used up
retry(q, it) ==
    IF it.retries < max_retries
    THEN q (+) SetToBag({[origin |-> it.origin,
                          retries |-> it.retries + 1,
                          countdowns |-> Append(it.countdowns,
                                                retry_countdown(it.retries))]})
    ELSE q

Free(w) == pc[w] \in {"idle", "done"}

\* ------------------------------------------------------------ initial state

PipelineInit ==
    /\ email = [status |-> "new", requires_escalation |-> FALSE,
                ai_classification_confidence |-> -1]
    /\ replies = <<>>
    /\ log = [k \in LogKeys |-> 0]
    /\ outbox = 0
    /\ notifications = 0
    /\ queue = SetToBag({[origin |-> "fetch", retries |-> 0, countdowns |-> <<>>]})
    /\ delivered = 1
    /\ faults = 0
    /\ pc = [w \in Workers |-> "idle"]
    /\ item = [w \in Workers |-> NoItem]
    /\ obj = [w \in Workers |-> NoObj]
    /\ classification = [w \in Workers |-> NoClassification]
    /\ reply_data = [w \in Workers |-> NoReplyData]
    /\ reply = [w \in Workers |-> NoReply]
    /\ err = [w \in Workers |-> ""]
    /\ send_result = [w \in Workers |-> "none"]

\* the pipeline on one message, with no agent call and no fetch looked at on
\* their own
Init == PipelineInit /\ AgentIdle /\ FetchIdle /\ ApiIdle /\ NotifyIdle /\ KbIdle

\* ------------------------------------------------------------ deliveries

\* process_email_task.delay(email_id) for the message, whatever its status: by
\* bulk_process_emails_task (origin "bulk") or by EmailViewSet.reprocess (origin
\* "reprocess")
Deliver(o) ==
    /\ delivered < MaxDeliveries
    /\ delivered' = delivered + 1
    /\ queue' = queue (+) SetToBag({[origin |-> o, retries |-> 0, countdowns |-> <<>>]})
    /\ UNCHANGED <<email, replies, log, outbox, notifications, faults, pc>>
    /\ UNCHANGED locals

\* ------------------------------------------------ process_email_task

\* a free worker (the first one) takes a work item;
\* email = Email.objects.get(id=email_id)
Get(w) ==
    /\ Free(w)
    /\ \A u \in Workers : u < w => ~Free(u)
    /\ \E it \in BagToSet(queue) :
          /\ queue' = queue (-) SetToBag({it})
          /\ item' = [item EXCEPT ![w] = it]
    /\ obj' = [obj EXCEPT ![w] = email]
    /\ classification' = [classification EXCEPT ![w] = NoClassification]
    /\ reply_data' = [reply_data EXCEPT ![w] = NoReplyData]
    /\ reply' = [reply EXCEPT ![w] = NoReply]
    /\ err' = [err EXCEPT ![w] = ""]
    /\ send_result' = [send_result EXCEPT ![w] = "none"]
    /\ pc' = [pc EXCEPT ![w] = "claim"]
    /\ UNCHANGED <<email, replies, log, outbox, notifications, delivered, faults>>

\* email.status = 'processing'; email.save(); log classification started
Claim(w) ==
    /\ pc[w] = "claim"
    /\ obj' = [obj EXCEPT ![w].status = "processing"]
    /\ email' = obj'[w]
    /\ log' = LogCreate(log, "classification", "started", "")
    /\ pc' = [pc EXCEPT ![w] = "classify"]
    /\ UNCHANGED <<replies, outbox, notifications, queue, delivered, faults>>
    /\ UNCHANGED <<item, classification, reply_data, reply, err, send_result>>

\* classification = agent.classify_email(email.subject, email.body); it is
\* copied to the Email and saved; log classification completed and, unless
\* escalated, reply_generation started.  Or classify_email raises.
Classify(w, may_raise) ==
    /\ pc[w] = "classify"
    /\ \/ \E r \in ClassifyResults :
            /\ classification' = [classification EXCEPT ![w] = r]
            /\ obj' = [obj EXCEPT
                         ![w].requires_escalation = r.requires_escalation,
                         ![w].ai_classification_confidence = r.confidence]
            /\ email' = obj'[w]
            /\ pc' = [pc EXCEPT ![w] = after_classification(obj'[w])]
            /\ log' = IF pc'[w] = "generate"
                      THEN LogCreate(LogCreate(log, "classification", "completed", ""),
                                     "reply_generation", "started", "")
                      ELSE LogCreate(log, "classification", "completed", "")
            /\ UNCHANGED <<err, faults>>
       \/ /\ may_raise
          /\ faults' = faults + 1
          /\ err' = [err EXCEPT ![w] = "classify_error"]
          /\ pc' = [pc EXCEPT ![w] = "handler_get"]
          /\ UNCHANGED <<classification, obj, email, log>>
    /\ UNCHANGED <<replies, outbox, notifications, queue, delivered>>
    /\ UNCHANGED <<item, reply_data, reply, send_result>>

\* reply_data = agent.generate_reply(...); reply = EmailReply.objects.create(...);
\* log reply_generation completed.  Or generate_reply raises.
Generate(w, may_raise) ==
    /\ pc[w] = "generate"
    /\ \E resp \in GenerateResponses(may_raise) :
          LET out == generate_reply(resp)
              r == out.value
              row == [status |-> created_reply_status(r),
                      source |-> "ai",
                      ai_confidence |-> r.confidence,
                      sent_at |-> FALSE]
          IN IF ~out.raised
             THEN /\ reply_data' = [reply_data EXCEPT ![w] = r]
                  /\ replies' = Append(replies, row)
                  /\ reply' = [reply EXCEPT ![w] =
                                 [id |-> Len(replies) + 1, status |-> row.status,
                                  sent_at |-> FALSE]]
                  /\ log' = LogCreate(log, "reply_generation", "completed", "")
                  /\ pc' = [pc EXCEPT ![w] =
                              IF auto_send_condition(r) THEN "approve"
                              ELSE "mark_review"]
                  /\ UNCHANGED <<err, faults>>
             ELSE /\ faults' = faults + 1
                  /\ err' = [err EXCEPT ![w] = out.error]
                  /\ pc' = [pc EXCEPT ![w] = "handler_get"]
                  /\ UNCHANGED <<reply_data, replies, reply, log>>
    /\ UNCHANGED <<email, outbox, notifications, queue, delivered>>
    /\ UNCHANGED <<item, obj, classification, send_result>>

\* reply.status = 'approved'; reply.save()
Approve(w) ==
    /\ pc[w] = "approve"
    /\ reply' = [reply EXCEPT ![w].status = "approved"]
    /\ replies' = ReplySave(replies, reply'[w])
    /\ pc' = [pc EXCEPT ![w] = "send"]
    /\ UNCHANGED <<email, log, outbox, notifications, queue, delivered, faults>>
    /\ UNCHANGED <<item, obj, classification, reply_data, err, send_result>>

\* sender.send_reply(email, reply): server.send_message(...) succeeds, then
\* reply_obj.status = 'sent'; reply_obj.sent_at = now; reply_obj.save().
\* Or it raises: the pipeline logs auto_send failed and returns.
Send(w, may_raise) ==
    /\ pc[w] = "send"
    /\ \/ /\ outbox' = outbox + 1
          /\ reply' = [reply EXCEPT ![w].status = "sent", ![w].sent_at = TRUE]
          /\ replies' = ReplySave(replies, reply'[w])
          /\ pc' = [pc EXCEPT ![w] = "sent_email_save"]
          /\ UNCHANGED <<log, send_result, faults, item>>
       \/ /\ may_raise
          /\ faults' = faults + 1
          /\ log' = auto_send_failed(log, "smtp_error")
          /\ send_result' = [send_result EXCEPT ![w] = "failed"]
          /\ pc' = [pc EXCEPT ![w] = "done"]
          /\ item' = [item EXCEPT ![w] = NoItem]
          /\ UNCHANGED <<outbox, reply, replies>>
    /\ UNCHANGED <<email, notifications, queue, delivered>>
    /\ UNCHANGED <<obj, classification, reply_data, err>>

\* send_reply: email_obj.status = 'replied'; email_obj.save(); then the pipeline
\* logs auto_send completed and returns
SentEmailSave(w) ==
    /\ pc[w] = "sent_email_save"
    /\ obj' = [obj EXCEPT ![w].status = "replied"]
    /\ email' = obj'[w]
    /\ log' = LogCreate(log, "auto_send", "completed", "")
    /\ send_result' = [send_result EXCEPT ![w] = "sent"]
    /\ pc' = [pc EXCEPT ![w] = "done"]
    /\ item' = [item EXCEPT ![w] = NoItem]
    /\ UNCHANGED <<replies, outbox, notifications, queue, delivered, faults>>
    /\ UNCHANGED <<classification, reply_data, reply, err>>

\* email.status = 'pending_review'; email.save(); return
MarkReview(w) ==
    /\ pc[w] = "mark_review"
    /\ obj' = [obj EXCEPT ![w].status = "pending_review"]
    /\ email' = obj'[w]
    /\ pc' = [pc EXCEPT ![w] = "done"]
    /\ item' = [item EXCEPT ![w] = NoItem]
    /\ UNCHANGED <<replies, log, outbox, notifications, queue, delivered, faults>>
    /\ UNCHANGED <<classification, reply_data, reply, err, send_result>>

\* email.status = 'escalated'; email.save();
\* send_escalation_notification_task.delay(email_id): queued and the task
\* returns, or the broker raises
Escalate(w, may_raise) ==
    /\ pc[w] = "escalate"
    /\ obj' = [obj EXCEPT ![w].status = "escalated"]
    /\ email' = obj'[w]
    /\ \/ /\ notifications' = notifications + 1
          /\ pc' = [pc EXCEPT ![w] = "done"]
          /\ item' = [item EXCEPT ![w] = NoItem]
          /\ UNCHANGED <<err, faults>>
       \/ /\ may_raise
          /\ faults' = faults + 1
          /\ err' = [err EXCEPT ![w] = "broker_error"]
          /\ pc' = [pc EXCEPT ![w] = "handler_get"]
          /\ UNCHANGED <<notifications, item>>
    /\ UNCHANGED <<replies, log, outbox, queue, delivered>>
    /\ UNCHANGED <<classification, reply_data, reply, send_result>>

\* except Exception as e: email = Email.objects.get(id=email_id)
HandlerGet(w) ==
    /\ pc[w] = "handler_get"
    /\ obj' = [obj EXCEPT ![w] = email]
    /\ pc' = [pc EXCEPT ![w] = "handler_save"]
    /\ UNCHANGED shared
    /\ UNCHANGED <<item, classification, reply_data, reply, err, send_result>>

\* log processing failed with str(e); email.status = 'new'; email.save();
\* raise self.retry(...)
HandlerSave(w) ==
    /\ pc[w] = "handler_save"
    /\ log' = LogCreate(log, "processing", "failed", err[w])
    /\ obj' = [obj EXCEPT ![w].status = handler_status]
    /\ email' = obj'[w]
    /\ queue' = retry(queue, item[w])
    /\ pc' = [pc EXCEPT ![w] = "done"]
    /\ item' = [item EXCEPT ![w] = NoItem]
    /\ UNCHANGED <<replies, outbox, notifications, delivered, faults>>
    /\ UNCHANGED <<classification, reply_data, reply, err, send_result>>

process_email_task(w, may_raise) ==
    \/ Get(w)
    \/ Claim(w)
    \/ Classify(w, may_raise)
    \/ Generate(w, may_raise)
    \/ Approve(w)
    \/ Send(w, may_raise)
    \/ SentEmailSave(w)
    \/ MarkReview(w)
    \/ Escalate(w, may_raise)
    \/ HandlerGet(w)
    \/ HandlerSave(w)

\* The worker pool on the message: deliveries and concurrent work items, with at
\* most MaxFaults collaborator failures.
Next ==
    \/ Deliver("bulk") /\ UNCHANGED <<agent_vars, fetch_vars, api_vars, notify_vars, kb_vars>>
    \/ \E w \in Workers :
          process_email_task(w, faults < MaxFaults) /\ UNCHANGED <<agent_vars, fetch_vars, api_vars, notify_vars, kb_vars>>

Spec == Init /\ [][Next]_vars

\* One work item run by one worker, the collaborators free to fail every time.
NextRetry == process_email_task(1, TRUE) /\ UNCHANGED <<agent_vars, fetch_vars, api_vars, notify_vars, kb_vars>>

SpecRetry == Init /\ [][NextRetry]_vars

\* ------------------------------------------------ ClaudeEmailAgent calls

ApiError(v) == [api_error |-> TRUE, text |-> <<>>, value |-> v, reply |-> <<>>]

\* answers of the reasoning service to the three requests
ClassifyAnswers ==
    {ApiError(default_classification)}
        \cup [api_error : {FALSE}, text : AnswerTexts,
              value : AnsweredClassifications, reply : {<<>>}]

\* the reply text of an answer is a fixed text or echoes the body of the request
GenerateAnswers ==
    {ApiError(NoValue)}
        \cup [api_error : {FALSE}, text : AnswerTexts,
              value : {[confidence |-> 81, requires_review |-> FALSE],
                       [confidence |-> 150, requires_review |-> FALSE]},
              reply : {<<"o", "k">>, request[2]}]

SentimentAnswers ==
    {ApiError(default_sentiment)}
        \cup [api_error : {FALSE}, text : AnswerTexts,
              value : {[sentiment |-> "negative", confidence |-> 90,
                        urgency_level |-> 5]},
              reply : {<<>>}]

\* classify_email(subject, body) up to self.client.messages.create: masked_body,
\* _ = self.mask_sensitive_data(body); the prompt holds subject and masked_body
ClassifyEmailRequest ==
    /\ method = "none"
    /\ method' = "classify_email"
    /\ request' = <<subject, mask_sensitive_data(body).text>>
    /\ mapping' = <<>>
    /\ UNCHANGED <<from_name, extracted_name, subject, body, answer, result>>
    /\ UNCHANGED <<shared, pc, locals, fetch_vars, api_vars, notify_vars, kb_vars>>

\* an agent method that saves the confidence of its result on the message
email_after_call_saving(e, r) ==
    IF r.raised THEN e ELSE [e EXCEPT !.ai_classification_confidence = r.value.confidence]

\* the stored Email after a ClaudeEmailAgent method ran: the methods take
\* texts, read EmailCategory names and return a dict; they save no row
email_after_call(e, r) == e

\* classify_email from the answer on
ClassifyEmailReturn ==
    /\ method = "classify_email"
    /\ answer = NoAnswer
    /\ \E a \in ClassifyAnswers :
          /\ answer' = a
          /\ result' = classify_email(a)
    /\ email' = email_after_call(email, result')
    /\ UNCHANGED <<from_name, extracted_name, subject, body, method, request, mapping>>
    /\ UNCHANGED <<replies, log, outbox, notifications, queue, delivered, faults>>
    /\ UNCHANGED <<pc, locals, fetch_vars, api_vars, notify_vars, kb_vars>>

\* generate_reply(subject, body, ...) up to self.client.messages.create:
\* masked_body, mapping = self.mask_sensitive_data(body)
GenerateReplyRequest ==
    /\ method = "none"
    /\ method' = "generate_reply"
    /\ LET m == mask_sensitive_data(body)
       IN /\ request' = <<subject, m.text>>
          /\ mapping' = m.mapping
    /\ UNCHANGED <<from_name, extracted_name, subject, body, answer, result>>
    /\ UNCHANGED <<shared, pc, locals, fetch_vars, api_vars, notify_vars, kb_vars>>

\* generate_reply from the answer on; result.reply is the body the pipeline
\* stores in the draft (body=reply_data['reply'])
GenerateReplyReturn ==
    /\ method = "generate_reply"
    /\ answer = NoAnswer
    /\ \E a \in GenerateAnswers :
          LET out == generate_reply([kind |-> answer_kind(a), value |-> a.value])
          IN /\ answer' = a
             /\ result' = [raised |-> out.raised, error |-> out.error,
                           value |-> out.value,
                           reply |-> IF out.raised THEN <<>>
                                     ELSE unmasked_reply(a.reply, mapping,
                                              customer_name(extracted_name, from_name))]
    /\ email' = email_after_call(email, result')
    /\ UNCHANGED <<from_name, extracted_name, subject, body, method, request, mapping>>
    /\ UNCHANGED <<replies, log, outbox, notifications, queue, delivered, faults>>
    /\ UNCHANGED <<pc, locals, fetch_vars, api_vars, notify_vars, kb_vars>>

\* analyze_sentiment(text) up to self.client.messages.create
AnalyzeSentimentRequest ==
    /\ method = "none"
    /\ method' = "analyze_sentiment"
    /\ request' = <<body>>
    /\ mapping' = <<>>
    /\ UNCHANGED <<from_name, extracted_name, subject, body, answer, result>>
    /\ UNCHANGED <<shared, pc, locals, fetch_vars, api_vars, notify_vars, kb_vars>>

\* analyze_sentiment from the answer on
AnalyzeSentimentReturn ==
    /\ method = "analyze_sentiment"
    /\ answer = NoAnswer
    /\ \E a \in SentimentAnswers :
          /\ answer' = a
          /\ result' = analyze_sentiment(a)
    /\ UNCHANGED <<from_name, extracted_name, subject, body, method, request, mapping>>
    /\ UNCHANGED <<shared, pc, locals, fetch_vars, api_vars, notify_vars, kb_vars>>

\* process_email_task after classify_email returned:
\* email.ai_classification_confidence = classification['confidence'];
\* email.requires_escalation = classification['requires_escalation']; email.save()
StoreClassification ==
    /\ method = "classify_email"
    /\ answer # NoAnswer
    /\ ~result.raised
    /\ email.ai_classification_confidence = -1
    /\ email' = [email EXCEPT
                    !.ai_classification_confidence = result.value.confidence,
                    !.requires_escalation = result.value.requires_escalation]
    /\ UNCHANGED <<replies, log, outbox, notifications, queue, delivered, faults>>
    /\ UNCHANGED <<pc, locals, agent_vars, fetch_vars, api_vars, notify_vars, kb_vars>>

\* process_email_task after generate_reply returned: EmailReply.objects.create(
\* email=email, body=reply_data['reply'], source='ai',
\* ai_confidence=reply_data['confidence'], status=...)
StoreReply ==
    /\ method = "generate_reply"
    /\ answer # NoAnswer
    /\ ~result.raised
    /\ replies = <<>>
    /\ replies' = <<[status |-> created_reply_status(result.value),
                     source |-> "ai",
                     ai_confidence |-> result.value.confidence,
                     sent_at |-> FALSE]>>
    /\ UNCHANGED <<email, log, outbox, notifications, queue, delivered, faults>>
    /\ UNCHANGED <<pc, locals, agent_vars, fetch_vars, api_vars, notify_vars, kb_vars>>

\* One call of a ClaudeEmailAgent method on a message, and what the pipeline
\* stores of its result.
InitAgent ==
    /\ PipelineInit
    /\ from_name \in Names
    /\ extracted_name \in ExtractedNames
    /\ subject \in Subjects
    /\ body \in Bodies
    /\ method = "none"
    /\ request = <<>>
    /\ mapping = <<>>
    /\ answer = NoAnswer
    /\ result = NoResult
    /\ FetchIdle
    /\ ApiIdle
    /\ NotifyIdle
    /\ KbIdle

NextAgent ==
    \/ ClassifyEmailRequest
    \/ ClassifyEmailReturn
    \/ GenerateReplyRequest
    \/ GenerateReplyReturn
    \/ AnalyzeSentimentRequest
    \/ AnalyzeSentimentReturn
    \/ StoreClassification
    \/ StoreReply

SpecAgent == InitAgent /\ [][NextAgent]_vars

\* ------------------------------------------------ fetch_emails_task

\* a unique=True that the database does not enforce
message_id_not_unique == FALSE

\* message_id = models.CharField(max_length=255, unique=True)
message_id_unique == TRUE

\* Email.objects.filter(message_id=message_id).exists()
Exists(id) == \E k \in 1..Len(stored) : stored[k].message_id = id

\* the next message of the response, or the end of the loop
Advance(f) ==
    /\ fetch_pos' = [fetch_pos EXCEPT ![f] = @ + 1]
    /\ fetch_pc' = [fetch_pc EXCEPT ![f] =
                      IF fetch_pos[f] < Len(mailbox) THEN "check" ELSE "queue"]

\* fetch_emails_task starts: fetch_new_emails searches the unseen messages and
\* fetches them (no message is ever flagged as seen)
FetchNewEmails(f) ==
    /\ fetch_pc[f] \in {"idle", "done", "retry"}
    /\ fetches < MaxFetches
    /\ fetches' = fetches + 1
    /\ created' = [created EXCEPT ![f] = <<>>]
    /\ fetch_pos' = [fetch_pos EXCEPT ![f] = 1]
    /\ fetch_pc' = [fetch_pc EXCEPT ![f] = "check"]
    /\ UNCHANGED <<mailbox, stored, queued>>
    /\ UNCHANGED <<shared, pc, locals, agent_vars, api_vars, notify_vars, kb_vars>>

\* _parse_email: if Email.objects.filter(message_id=message_id).exists():
\* return None
ParseEmailCheck(f) ==
    /\ fetch_pc[f] = "check"
    /\ IF Exists(mailbox[fetch_pos[f]])
       THEN Advance(f)
       ELSE /\ fetch_pc' = [fetch_pc EXCEPT ![f] = "create"]
            /\ UNCHANGED fetch_pos
    /\ UNCHANGED <<mailbox, stored, fetches, created, queued>>
    /\ UNCHANGED <<shared, pc, locals, agent_vars, api_vars, notify_vars, kb_vars>>

\* _parse_email: email_obj = Email.objects.create(message_id=message_id, ...,
\* status='new'); created_emails.append(email_obj).  The unique constraint
\* makes the create of a stored Message-ID raise, which fetch_new_emails logs
\* before it goes on with the next message.
ParseEmailCreate(f) ==
    /\ fetch_pc[f] = "create"
    /\ LET id == mailbox[fetch_pos[f]]
       IN IF message_id_unique /\ Exists(id)
          THEN UNCHANGED <<stored, created>>
          ELSE /\ stored' = Append(stored, [message_id |-> id, status |-> "new"])
               /\ created' = [created EXCEPT ![f] = Append(@, id)]
    /\ Advance(f)
    /\ UNCHANGED <<mailbox, fetches, queued>>
    /\ UNCHANGED <<shared, pc, locals, agent_vars, api_vars, notify_vars, kb_vars>>

\* fetch_emails_task: for email_obj in new_emails:
\* process_email_task.delay(email_obj.id)
QueueProcessing(f) ==
    /\ fetch_pc[f] = "queue"
    /\ queued' = queued (+) [id \in {created[f][k] : k \in 1..Len(created[f])} |->
                              Cardinality({k \in 1..Len(created[f]) :
                                              created[f][k] = id})]
    /\ fetch_pc' = [fetch_pc EXCEPT ![f] = "done"]
    /\ UNCHANGED <<mailbox, stored, fetches, fetch_pos, created>>
    /\ UNCHANGED <<shared, pc, locals, agent_vars, api_vars, notify_vars, kb_vars>>

\* the bag of the first k Message-IDs of a list
Prefix(list, k) ==
    [id \in {list[j] : j \in 1..k} |-> Cardinality({j \in 1..k : list[j] = id})]

\* fetch_emails_task fails after the loop over the messages: the IMAP
\* connection raises when it is closed, or the broker raises at one of the
\* process_email_task.delay calls, the first k being queued.  except Exception:
\* raise self.retry(...): the task is run again, with no memory of the run.
FetchRetry(f) ==
    /\ fetch_pc[f] = "queue"
    /\ \E k \in 0..Len(created[f]) :
          /\ k = 0 \/ k < Len(created[f])
          /\ queued' = queued (+) Prefix(created[f], k)
    /\ fetch_pc' = [fetch_pc EXCEPT ![f] = "retry"]
    /\ UNCHANGED <<mailbox, stored, fetches, fetch_pos, created>>
    /\ UNCHANGED <<shared, pc, locals, agent_vars, api_vars, notify_vars, kb_vars>>

fetch_emails_task(f) ==
    \/ FetchNewEmails(f)
    \/ ParseEmailCheck(f)
    \/ ParseEmailCreate(f)
    \/ QueueProcessing(f)
    \/ FetchRetry(f)

\* Runs of fetch_emails_task, two at a time, over one mailbox.
InitFetch ==
    /\ PipelineInit
    /\ AgentIdle
    /\ mailbox \in UNION {[1..n -> MessageIds] : n \in 1..MaxMailbox}
    /\ stored = <<>>
    /\ fetches = 0
    /\ fetch_pc = [f \in Fetchers |-> "idle"]
    /\ fetch_pos = [f \in Fetchers |-> 0]
    /\ created = [f \in Fetchers |-> <<>>]
    /\ queued = EmptyBag
    /\ ApiIdle
    /\ NotifyIdle
    /\ KbIdle

NextFetch == \E f \in Fetchers : fetch_emails_task(f)

SpecFetch == InitFetch /\ [][NextFetch]_vars

\* ------------------------------------------------ API and dashboard actions
\* A request that only loads a row and saves it is one step.  A request that
\* calls send_reply is two: the status it saves or checks first, then the send.

Ids == DOMAIN replies

\* a request comes in; the rest of the state is touched by no API action
ApiFrame ==
    /\ requests < MaxRequests
    /\ requests' = requests + 1
    /\ UNCHANGED <<log, notifications, faults, pc, locals>>
    /\ UNCHANGED <<agent_vars, fetch_vars, notify_vars, kb_vars>>

\* history: an operator's request saves the status s; it is remembered when a
\* run of process_email_task has loaded the message and has not returned
OperatorSets(s) ==
    operator_status' = IF \E w \in Workers : ~Free(w) THEN s ELSE operator_status

\* EmailViewSet.assign: email_obj.status = 'processing'; email_obj.save()
assign ==
    /\ email' = [email EXCEPT !.status = "processing"]
    /\ OperatorSets("processing")
    /\ UNCHANGED <<replies, outbox, queue, delivered, sending, was_rejected>>
    /\ ApiFrame

\* EmailViewSet.reprocess: process_email_task.delay(email_obj.id)
reprocess ==
    /\ Deliver("reprocess")
    /\ requests < MaxRequests
    /\ requests' = requests + 1
    /\ UNCHANGED <<agent_vars, fetch_vars, notify_vars, kb_vars, sending, was_rejected,
                   operator_status>>

\* EmailViewSet.escalate: requires_escalation = True; status = 'escalated'
escalate ==
    /\ email' = [email EXCEPT !.status = "escalated", !.requires_escalation = TRUE]
    /\ OperatorSets("escalated")
    /\ UNCHANGED <<replies, outbox, queue, delivered, sending, was_rejected>>
    /\ ApiFrame

\* EmailViewSet.mark_spam: email_obj.status = 'spam'; email_obj.save()
mark_spam ==
    /\ email' = [email EXCEPT !.status = "spam"]
    /\ OperatorSets("spam")
    /\ UNCHANGED <<replies, outbox, queue, delivered, sending, was_rejected>>
    /\ ApiFrame

\* the request goes on to send_reply with the row, when asked to and when no
\* other request of the model is at that point
HandTo(id, send_now) ==
    IF send_now /\ sending = 0 THEN sending' = id ELSE UNCHANGED sending

\* EmailReplyViewSet.review with action approve, and dashboard approve_reply:
\* reply.status = 'approved'; reply.save(); then send_reply if asked to
approve_reply(id, send_now) ==
    /\ id \in Ids
    /\ replies' = [replies EXCEPT ![id].status = "approved"]
    /\ HandTo(id, send_now)
    /\ UNCHANGED <<email, outbox, queue, delivered, was_rejected, operator_status>>
    /\ ApiFrame

\* EmailReplyViewSet.review with action reject, and dashboard reject_reply:
\* reply.status = 'rejected'; reply.save()
reject_reply(id) ==
    /\ id \in Ids
    /\ replies' = [replies EXCEPT ![id].status = "rejected"]
    /\ was_rejected' = was_rejected \cup {id}
    /\ UNCHANGED <<email, outbox, queue, delivered, sending, operator_status>>
    /\ ApiFrame

review_modify_in_place(id, send_now) ==
    /\ id \in Ids
    /\ replies' = [replies EXCEPT ![id].status = "approved",
                                  ![id].source = "ai_modified"]
    /\ HandTo(id, send_now)
    /\ UNCHANGED <<email, outbox, queue, delivered, was_rejected, operator_status>>
    /\ ApiFrame

\* EmailReplyViewSet.review with action modify: a new reply is created with
\* source ai_modified and status approved, the old one is saved as rejected,
\* and the new one is sent if asked to
review_modify(id, send_now) ==
    /\ id \in Ids
    /\ replies' = Append([replies EXCEPT ![id].status = "rejected"],
                         [status |-> "approved", source |-> "ai_modified",
                          ai_confidence |-> -1, sent_at |-> FALSE])
    /\ HandTo(Len(replies) + 1, send_now)
    /\ was_rejected' = was_rejected \cup {id}
    /\ UNCHANGED <<email, outbox, queue, delivered, operator_status>>
    /\ ApiFrame

\* EmailReplyViewSet.send: if reply_obj.status != 'approved': 400; else
\* send_reply
send_unchecked(id) ==
    /\ id \in Ids
    /\ sending = 0
    /\ sending' = id
    /\ UNCHANGED <<email, replies, outbox, queue, delivered, was_rejected,
                   operator_status>>
    /\ ApiFrame

send(id) ==
    /\ id \in Ids
    /\ IF replies[id].status # "approved"
       THEN UNCHANGED sending
       ELSE sending = 0 /\ sending' = id
    /\ UNCHANGED <<email, replies, outbox, queue, delivered, was_rejected,
                   operator_status>>
    /\ ApiFrame

\* EmailSenderService.send_reply called by the request: the message is sent,
\* reply_obj is saved as sent and its email as replied.  (An SMTP failure
\* leaves every row as it is.)
send_reply ==
    /\ sending # 0
    /\ sending' = 0
    /\ \/ /\ outbox' = outbox + 1
          /\ replies' = [replies EXCEPT ![sending].status = "sent",
                                        ![sending].sent_at = TRUE]
          /\ email' = [email EXCEPT !.status = "replied"]
       \/ UNCHANGED <<outbox, replies, email>>
    /\ UNCHANGED <<queue, delivered, requests, was_rejected, operator_status>>
    /\ UNCHANGED <<log, notifications, faults, pc, locals>>
    /\ UNCHANGED <<agent_vars, fetch_vars, notify_vars, kb_vars>>

\* The pipeline of one worker on the message, with the agents' requests.
NextApi ==
    \/ /\ process_email_task(1, faults < MaxFaults)
       /\ operator_status' = IF Free(1) THEN "" ELSE operator_status
       /\ UNCHANGED <<requests, sending, was_rejected, response>>
       /\ UNCHANGED <<agent_vars, fetch_vars, notify_vars, kb_vars>>
    \/ assign /\ UNCHANGED response
    \/ reprocess /\ UNCHANGED response
    \/ escalate /\ UNCHANGED response
    \/ mark_spam /\ UNCHANGED response
    \/ \E id \in Ids, send_now \in BOOLEAN :
          approve_reply(id, send_now) /\ UNCHANGED response
    \/ \E id \in Ids : reject_reply(id) /\ UNCHANGED response
    \/ \E id \in Ids, send_now \in BOOLEAN :
          review_modify(id, send_now) /\ UNCHANGED response
    \/ \E id \in Ids : send(id) /\ UNCHANGED response
    \/ send_reply /\ UNCHANGED response

SpecApi == Init /\ [][NextApi]_vars

\* ------------------------------------------------ the draft endpoints' responses

\* EmailReplyViewSet.review: the action of the request is carried out and the
\* response is 200, unless the request goes on to send_reply
review(action_type, id, send_now) ==
    /\ \/ action_type = "approve" /\ approve_reply(id, send_now)
       \/ action_type = "reject" /\ ~send_now /\ reject_reply(id)
       \/ action_type = "modify" /\ review_modify(id, send_now)
    /\ response' = [action |-> action_type, id |-> id,
                    reply |-> IF action_type = "modify" THEN Len(replies) + 1 ELSE id,
                    status |-> IF sending' # 0 THEN 0 ELSE 200]

\* EmailReplyViewSet.send: 400 for a reply that is not approved, else the
\* request goes on to send_reply
send_request(id) ==
    /\ send(id)
    /\ response' = [action |-> "send", id |-> id, reply |-> id,
                    status |-> IF sending' # 0 THEN 0 ELSE 400]

\* send_reply returns and the response is 200, or it raises and the response
\* is 500
respond ==
    /\ send_reply
    /\ response' = [response EXCEPT !.status = IF outbox' # outbox THEN 200 ELSE 500]

\* The drafts of the message and the operators' requests on them, one request
\* at a time and none while the pipeline runs.
NextReview ==
    \/ /\ sending = 0
       /\ process_email_task(1, faults < MaxFaults)
       /\ UNCHANGED <<agent_vars, fetch_vars, api_vars, notify_vars, kb_vars>>
    \/ /\ Free(1) /\ sending = 0
       /\ \E action_type \in {"approve", "reject", "modify"}, id \in Ids,
             send_now \in BOOLEAN : review(action_type, id, send_now)
    \/ /\ Free(1) /\ sending = 0
       /\ \E id \in Ids : send_request(id)
    \/ respond

SpecReview == Init /\ [][NextReview]_vars

\* ------------------------------------------------ send_escalation_notification_task

\* the rest of the state is touched by no step of the notification task
NotifyFrame ==
    /\ UNCHANGED <<email, replies, log, outbox, queue, delivered, pc, locals>>
    /\ UNCHANGED <<agent_vars, fetch_vars, api_vars, kb_vars, admins>>

\* a worker takes a queued notification: email = Email.objects.get(id=email_id);
\* admin_emails = User.objects.filter(is_staff=True, is_active=True);
\* if not admin_emails: return
NotifyGet ==
    /\ notify_pc = "idle"
    /\ notifications > 0
    /\ notifications' = notifications - 1
    /\ notified' = <<>>
    /\ IF admins = 0
       THEN notify_pc' = "idle" /\ notify_pos' = 0
       ELSE notify_pc' = "loop" /\ notify_pos' = 1
    /\ UNCHANGED faults
    /\ NotifyFrame

\* what send_notification returns: True, or False when anything in it raised
\* (except Exception: logger.error(...); return False)
send_notification(may_fail) == IF may_fail THEN {TRUE, FALSE} ELSE {TRUE}

\* for admin_email in admin_emails: sender.send_notification(admin_email, ...);
\* the value returned is not looked at.  After the last one the task returns.
NotifySend(may_fail) ==
    /\ notify_pc = "loop"
    /\ \E ok \in send_notification(may_fail) :
          /\ notified' = Append(notified, ok)
          /\ faults' = IF ok THEN faults ELSE faults + 1
    /\ IF notify_pos < admins
       THEN notify_pc' = "loop" /\ notify_pos' = notify_pos + 1
       ELSE notify_pc' = "idle" /\ notify_pos' = 0
    /\ UNCHANGED notifications
    /\ NotifyFrame

send_escalation_notification_task(may_fail) ==
    \/ NotifyGet
    \/ NotifySend(may_fail)

InitNotify ==
    /\ PipelineInit
    /\ AgentIdle
    /\ FetchIdle
    /\ ApiIdle
    /\ admins \in 0..MaxAdmins
    /\ notify_pc = "idle"
    /\ notify_pos = 0
    /\ notified = <<>>
    /\ KbIdle

\* One worker runs the work items of the message, another the notification
\* tasks they queue, with at most MaxFaults collaborator failures.
NextNotify ==
    \/ Deliver("bulk") /\ UNCHANGED <<agent_vars, fetch_vars, api_vars, notify_vars, kb_vars>>
    \/ process_email_task(1, faults < MaxFaults)
          /\ UNCHANGED <<agent_vars, fetch_vars, api_vars, notify_vars, kb_vars>>
    \/ send_escalation_notification_task(faults < MaxFaults)

SpecNotify == InitNotify /\ [][NextNotify]_vars

\* ------------------------------------------------ process_email_task and the KnowledgeBase table
\* Lines 109-146 of process_email_task, the part of a work item that reads and
\* writes KnowledgeBase rows: the query, the generate_reply call, and the loop
\* over kb_articles.

\* a filter that forgets is_active
Candidates_any(table, c) ==
    {id \in DOMAIN table : table[id].category = c}

\* KnowledgeBase.objects.filter(category=category, is_active=True)
Candidates(table, c) ==
    {id \in DOMAIN table : table[id].category = c /\ table[id].is_active}

\* .order_by('-use_count'): the orders the database can return the rows in,
\* rows of equal use_count in any order
OrderBy(table, S) ==
    {q \in [1..Cardinality(S) -> S] :
        /\ \A i, j \in DOMAIN q : i # j => q[i] # q[j]
        /\ \A i, j \in DOMAIN q :
              i < j => table[q[i]].use_count >= table[q[j]].use_count}

\* [:3]
Slice(q, n) == SubSeq(q, 1, IF Len(q) < n THEN Len(q) ELSE n)

\* kb_articles = []; if category: kb_articles = list(...): the lists the query
\* can give
Select(table, c) ==
    IF c = "none" THEN {<<>>}
    ELSE {Slice(q, kb_limit) : q \in OrderBy(table, Candidates(table, c))}

\* the in-memory rows of a list of ids
Loaded(table, q) == [i \in DOMAIN q |-> [id |-> q[i], use_count |-> table[q[i]].use_count]]

KbFrame ==
    /\ UNCHANGED <<shared, pc, locals>>
    /\ UNCHANGED <<agent_vars, fetch_vars, api_vars, notify_vars, kb0>>

\* a work item reaches the reply generation with the category its
\* classification assigned (none when no EmailCategory row has the name), and
\* runs the query of lines 110-117
SelectArticles(w, max_uses) ==
    /\ kb_pc[w] \in {"idle", "done"}
    /\ uses < max_uses
    /\ uses' = uses + 1
    /\ \E c \in {"billing", "technical", "none"} :
          /\ kb_category' = [kb_category EXCEPT ![w] = c]
          /\ \E q \in Select(kb, c) :
                kb_articles' = [kb_articles EXCEPT ![w] = Loaded(kb, q)]
    /\ kb_i' = [kb_i EXCEPT ![w] = 0]
    /\ kb_pc' = [kb_pc EXCEPT ![w] = "generate"]
    /\ UNCHANGED <<kb, credited>>
    /\ KbFrame

\* the titles the answer lists in used_articles: any of the articles handed over
UsedArticles(articles) == SUBSET {articles[i].id : i \in DOMAIN articles}

\* reply_data = agent.generate_reply(..., kb_articles) returns, the draft is
\* created and linked to kb_articles; or the call raises and the work item
\* leaves for the failure handler
GenerateWithArticles(w) ==
    /\ kb_pc[w] = "generate"
    /\ \/ \E used \in UsedArticles(kb_articles[w]) :
            /\ credited' = [id \in DOMAIN credited |->
                                IF id \in used THEN credited[id] + 1 ELSE credited[id]]
            /\ IF kb_articles[w] # <<>>
               THEN kb_pc' = [kb_pc EXCEPT ![w] = "increment"]
                    /\ kb_i' = [kb_i EXCEPT ![w] = 1]
               ELSE kb_pc' = [kb_pc EXCEPT ![w] = "done"]
                    /\ UNCHANGED kb_i
       \/ /\ kb_pc' = [kb_pc EXCEPT ![w] = "done"]
          /\ UNCHANGED <<credited, kb_i>>
    /\ UNCHANGED <<kb, uses, kb_category, kb_articles>>
    /\ KbFrame

\* article.use_count += 1; article.save(): the in-memory counter plus one is
\* written over the stored one
saved_use_count(table, article) == article.use_count + 1

\* for article in kb_articles: article.use_count += 1; article.save()
IncrementUseCount(w) ==
    /\ kb_pc[w] = "increment"
    /\ LET article == kb_articles[w][kb_i[w]]
       IN kb' = [kb EXCEPT ![article.id].use_count = saved_use_count(kb, article)]
    /\ IF kb_i[w] < Len(kb_articles[w])
       THEN kb_i' = [kb_i EXCEPT ![w] = kb_i[w] + 1] /\ UNCHANGED kb_pc
       ELSE kb_i' = [kb_i EXCEPT ![w] = 0] /\ kb_pc' = [kb_pc EXCEPT ![w] = "done"]
    /\ UNCHANGED <<credited, uses, kb_category, kb_articles>>
    /\ KbFrame

reply_generation(w, max_uses) ==
    \/ SelectArticles(w, max_uses)
    \/ GenerateWithArticles(w)
    \/ IncrementUseCount(w)

InitKb(tables) ==
    /\ PipelineInit
    /\ AgentIdle
    /\ FetchIdle
    /\ ApiIdle
    /\ NotifyIdle
    /\ kb \in tables
    /\ kb0 = kb
    /\ credited = [id \in DOMAIN kb |-> 0]
    /\ uses = 0
    /\ kb_pc = [w \in Workers |-> "idle"]
    /\ kb_category = [w \in Workers |-> "none"]
    /\ kb_articles = [w \in Workers |-> <<>>]
    /\ kb_i = [w \in Workers |-> 0]

\* The query of one work item, on any table.
NextSelect == SelectArticles(1, 1)

SpecSelect == InitKb(Tables) /\ [][NextSelect]_vars

\* Work items on two workers that share the articles of one category.
NextKb == \E w \in Workers : reply_generation(w, MaxUses)

SpecKb == InitKb(SharedTables) /\ [][NextKb]_vars

\* ------------------------------------------------------------ properties

Terminal == {"replied", "escalated", "closed", "spam"}

\* the worker is between its first save and the end of the invocation
Processing(w) == pc[w] \notin {"idle", "claim", "done"}

\* the invocation took the auto-send branch
SendAttempted(w) ==
    pc[w] \in {"approve", "send", "sent_email_save"} \/ send_result[w] # "none"

\* the invocation's generate_reply call returned and the draft exists
Generated(w) == reply[w] # NoReply

\* processing failed rows of the audit trail
FailedEntries(l) ==
    l[<<"processing", "failed", "classify_error">>]
    + l[<<"processing", "failed", "generate_error">>]
    + l[<<"processing", "failed", "generate_parse_error">>]
    + l[<<"processing", "failed", "broker_error">>]

\* the work items of the message, waiting or running
Items == BagToSet(queue) \cup {item[w] : w \in Workers}

\* the worker abandons the item: it ends with nothing written
Abandons(w) ==
    \/ pc'[w] = pc[w]
    \/ /\ pc'[w] = "done"
       /\ email' = email /\ replies' = replies /\ log' = log
       /\ outbox' = outbox /\ notifications' = notifications

\* C1: a worker that read status new, and finds the stored status no longer new
\* when it comes to claim the message (another worker claimed it in between),
\* abandons the item without any write.
C1_LoserAbandons ==
    [][\A w \in Workers :
          (pc[w] = "claim" /\ obj[w].status = "new" /\ email.status # "new")
              => Abandons(w)]_vars

\* C2: no two workers process the message at the same time, at most one AI
\* draft exists for it and at most one reply was sent to the customer.
C2_SerializedProcessing ==
    /\ \A w1, w2 \in Workers : w1 # w2 => ~(Processing(w1) /\ Processing(w2))
    /\ Cardinality({i \in DOMAIN replies : replies[i].source = "ai"}) <= 1
    /\ outbox <= 1

\* C3: a work item that is no manual reprocess request and finds the message
\* in a terminal status is a no-op: it ends with nothing written.
C3_TerminalNoOp ==
    [][\A w \in Workers :
          (pc[w] = "claim" /\ obj[w].status \in Terminal
              /\ item[w].origin # "reprocess")
              => Abandons(w)]_vars

\* C4: an invocation takes the auto-send branch if and only if its
\* classification did not require escalation, its reply confidence is at least
\* the threshold and its reply does not require review.
C4_AutoSendGate ==
    \A w \in Workers :
        /\ SendAttempted(w) =>
              /\ classification[w] # NoClassification
              /\ ~classification[w].requires_escalation
              /\ reply_data[w] # NoReplyData
              /\ reply_data[w].confidence >= EMAIL_AUTO_REPLY_THRESHOLD
              /\ ~reply_data[w].requires_review
        /\ (/\ Generated(w)
            /\ ~classification[w].requires_escalation
            /\ reply_data[w].confidence >= EMAIL_AUTO_REPLY_THRESHOLD
            /\ ~reply_data[w].requires_review) => SendAttempted(w)

\* C4 witness: a reply whose confidence equals the threshold was auto-sent.
C4_Witness ==
    \E w \in Workers :
        /\ send_result[w] = "sent"
        /\ reply_data[w].confidence = EMAIL_AUTO_REPLY_THRESHOLD
        /\ ~reply_data[w].requires_review

\* C5: an invocation whose classification requires escalation never reaches
\* generation, has no draft and no send, and has set the message to escalated
\* when it returns or when the notification hand-off raises.
C5_EscalationPrecedence ==
    \A w \in Workers :
        classification[w].requires_escalation =>
            /\ pc[w] \notin {"generate", "approve", "send", "sent_email_save",
                             "mark_review"}
            /\ reply_data[w] = NoReplyData
            /\ reply[w] = NoReply
            /\ send_result[w] = "none"
            /\ ((pc[w] = "done" /\ err[w] = "") \/ pc[w] = "handler_get")
                   => obj[w].status = "escalated"

\* C5 witness: an escalation classified with low confidence has ended escalated.
C5_Witness ==
    \E w \in Workers :
        /\ pc[w] = "done" /\ err[w] = ""
        /\ classification[w].requires_escalation
        /\ classification[w].confidence = 50
        /\ obj[w].status = "escalated"

\* C6: an invocation that generated a reply which is below the threshold or
\* requires review ends with its draft pending_approval and the message
\* pending_review.
C6_ReviewRoute ==
    \A w \in Workers :
        (/\ pc[w] = "done"
         /\ Generated(w)
         /\ (reply_data[w].confidence < EMAIL_AUTO_REPLY_THRESHOLD
                \/ reply_data[w].requires_review))
            => /\ reply[w].status = "pending_approval"
               /\ obj[w].status = "pending_review"

\* two ended invocations got the same classification and the same generation
\* result
SameInputs(w1, w2) ==
    /\ pc[w1] = "done" /\ pc[w2] = "done"
    /\ classification[w1] # NoClassification
    /\ classification[w1] = classification[w2]
    /\ reply_data[w1] = reply_data[w2]
    /\ (classification[w1].requires_escalation \/ reply_data[w1] # NoReplyData)

\* they ended with the same message status and the same draft status
SameOutcome(w1, w2) ==
    /\ obj[w1].status = obj[w2].status
    /\ reply[w1].status = reply[w2].status

\* the Sender and the broker answered the two invocations alike, where both
\* were asked
SameCollaborators(w1, w2) ==
    /\ err[w1] = err[w2]
    /\ \/ send_result[w1] = send_result[w2]
       \/ send_result[w1] = "none"
       \/ send_result[w2] = "none"

\* C7 as claimed: two invocations with the same classification and the same
\* generation result end with the same message status and draft status.
C7_SameInputsSameOutcome ==
    \A w1, w2 \in Workers : SameInputs(w1, w2) => SameOutcome(w1, w2)

\* C7: two invocations with the same classification and the same generation
\* result, to which the Sender and the broker answered alike, end with the
\* same message status and the same draft status.
C7_DeterministicRouting ==
    \A w1, w2 \in Workers :
        (SameInputs(w1, w2) /\ SameCollaborators(w1, w2)) => SameOutcome(w1, w2)

\* C7 witness: two invocations with the same inputs both sent their reply.
C7_Witness ==
    \E w1, w2 \in Workers :
        /\ w1 # w2
        /\ SameInputs(w1, w2)
        /\ send_result[w1] = "sent" /\ send_result[w2] = "sent"

\* attempts of the message started so far, and those still running
Attempts == log[<<"classification", "started", "">>]
Running == Cardinality({w \in Workers : Processing(w)})

\* the one work item has failed for good: nothing runs and nothing is queued
Exhausted ==
    /\ pc[1] = "done" /\ err[1] # ""
    /\ queue = EmptyBag

\* C8: a work item that fails on every attempt makes max_retries + 1 attempts
\* and no more; when it has failed for good the message is new with a failed
\* audit entry, and while every attempt has failed the message is never closed
\* or replied.
C8_RetryExhaustion ==
    /\ Attempts <= max_retries + 1
    /\ \A it \in Items : it.retries <= max_retries
    /\ Exhausted =>
          /\ FailedEntries(log) = max_retries + 1
          /\ Attempts = max_retries + 1
          /\ email.status = "new"
    /\ (Attempts = FailedEntries(log) + Running)
          => email.status \notin {"closed", "replied"}

\* C8 witness: the work item has failed four times and is not queued again.
C8_Witness ==
    /\ Exhausted
    /\ FailedEntries(log) = 4
    /\ email.status = "new"

\* C9: a work item that was retried k times was scheduled with the countdowns
\* 60, 120, 240 up to the k-th.
C9_Backoff ==
    \A it \in Items :
        /\ it.retries <= 3
        /\ it.countdowns = SubSeq(<<60, 120, 240>>, 1, it.retries)

\* C9 witness: a work item is queued for its third retry.
C9_Witness ==
    \E it \in BagToSet(queue) :
        it.retries = 3 /\ it.countdowns = <<60, 120, 240>>

\* the invocation of w ends in this step
Ends(w) == pc[w] # "done" /\ pc'[w] = "done"

\* C10 as claimed: an invocation in which a step raised after the first save
\* ends with the stored status new and a failed audit entry appended.
C10_AnyRaiseEndsNew ==
    [][\A w \in Workers :
          (Ends(w) /\ (err'[w] # "" \/ send_result'[w] = "failed"))
              => /\ email'.status = "new"
                 /\ FailedEntries(log') = FailedEntries(log) + 1]_vars

\* C10: an invocation in which a step other than the auto-send raised after
\* the first save ends with the stored status new and a processing failed
\* audit entry carrying the error text appended.
C10_RaiseEndsNew ==
    [][\A w \in Workers :
          (Ends(w) /\ err'[w] # "")
              => /\ email'.status = "new"
                 /\ log'[<<"processing", "failed", err[w]>>]
                        = log[<<"processing", "failed", err[w]>>] + 1
                 /\ FailedEntries(log') = FailedEntries(log) + 1]_vars

\* C10 witness: the hand-off of the notification raised after escalated was
\* written, and the invocation ended with the message new.
C10_Witness ==
    \E w \in Workers :
        /\ pc[w] = "done" /\ err[w] = "broker_error"
        /\ email.status = "new"
        /\ log[<<"processing", "failed", "broker_error">>] > 0

\* an answer to generate_reply that json.loads rejects
NotJson == [kind |-> "not_json", value |-> NoValue]

\* C11: generate_reply raises on an answer that cannot be parsed; the invocation
\* it fails creates no draft and sends nothing, and it ends with the stored
\* status new and the work item queued again while it has retries left.
C11_ParseFailureToNew ==
    [][/\ generate_reply(NotJson).raised
       /\ \A w \in Workers :
             /\ (pc[w] = "generate" /\ pc'[w] = "handler_get")
                   => (replies' = replies /\ outbox' = outbox)
             /\ err'[w] = "generate_parse_error" =>
                   /\ pc'[w] \in {"handler_get", "handler_save", "done"}
                   /\ reply'[w] = NoReply
                   /\ reply_data'[w] = NoReplyData
                   /\ send_result'[w] = "none"
                   /\ Ends(w) =>
                         /\ email.status = "processing" => email'.status = "new"
                         /\ email'.status = "new"
                         /\ item[w].retries < max_retries =>
                               \E it \in BagToSet(queue') :
                                   it.retries = item[w].retries + 1]_vars

\* C11 witness: an invocation whose generation answer could not be parsed has
\* ended, with no draft of its own, the message new and the failure logged.
C11_Witness ==
    \E w \in Workers :
        /\ pc[w] = "done" /\ err[w] = "generate_parse_error"
        /\ reply[w] = NoReply
        /\ email.status = "new"
        /\ log[<<"processing", "failed", "generate_parse_error">>] = 1

\* the agent method has returned or raised on an answer of the service
Answered(m) == method = m /\ answer # NoAnswer /\ ~answer.api_error

\* classify_email returned the default classification
ReturnedDefault == ~result.raised /\ result.value = default_classification

\* C12 as claimed: on every answer that is not valid JSON classify_email returns
\* the default classification and does not raise.
C12_NotJsonDefault ==
    (Answered("classify_email") /\ ~ValidJson(answer.text)) => ReturnedDefault

\* C12: on every answer that is not valid JSON once the code fence markers
\* around it are removed, classify_email returns the default classification
\* and does not raise.
C12_UnparseableDefault ==
    (Answered("classify_email") /\ ~ValidJson(strip_fences(answer.text)))
        => ReturnedDefault

\* C12 witness: prose was answered and the default classification returned.
C12_Witness ==
    /\ Answered("classify_email")
    /\ answer.text = <<"G">>
    /\ ReturnedDefault

\* C13: on a parsed answer whose category is no configured category
\* classify_email returns the default classification and does not raise.
C13_UnknownCategoryDefault ==
    (/\ Answered("classify_email")
     /\ answer_kind(answer) = "json"
     /\ answer.value.category \notin Categories) => ReturnedDefault

\* C14: unmasking the masked body with its token map gives the body back.
C14_MaskRoundTrip ==
    LET m == mask_sensitive_data(body)
    IN unmask_sensitive_data(m.text, m.mapping) = body

\* the values the sensitive patterns recognise in a text
Sensitive(text) ==
    UNION { {FindIter(Patterns[k], text, 1)[n] :
                n \in 1..Len(FindIter(Patterns[k], text, 1))} :
            k \in 1..Len(Patterns) }

\* C15: no text of the request sent to the reasoning service holds a sensitive
\* value of the message where a sensitive pattern recognises it.
C15_RequestMasked ==
    \A k \in 1..Len(request) :
        Sensitive(request[k]) \cap (Sensitive(subject) \cup Sensitive(body)) = {}

\* C16: the reply body generate_reply returns for the draft holds no token of
\* the call's token map.
C16_NoTokenInDraft ==
    (Answered("generate_reply") /\ ~result.raised) =>
        \A k \in 1..Len(mapping) : ~Contains(result.reply, mapping[k][1])

\* rows stored with the Message-ID, and work items queued for it
Rows(id) == Cardinality({k \in 1..Len(stored) : stored[k].message_id = id})
WorkItems(id) == CopiesIn(id, queued)

\* the fetch task takes a step on a message
Ingests(f) ==
    /\ fetch_pc[f] \in {"check", "create"}
    /\ <<fetch_pc[f], fetch_pos[f]>> # <<fetch_pc'[f], fetch_pos'[f]>>

\* C17: at most one message is stored per Message-ID and at most one work item
\* queued for it; a fetch task that comes to a Message-ID already stored
\* creates no record, changes none and will queue no work item for it.
C17_Deduplication ==
    /\ [](\A id \in MessageIds : Rows(id) <= 1 /\ WorkItems(id) <= Rows(id))
    /\ [][\A f \in Fetchers :
             (Ingests(f) /\ Exists(mailbox[fetch_pos[f]]))
                 => /\ stored' = stored
                    /\ created'[f] = created[f]
                    /\ queued' = queued]_vars

\* C17 witness: two fetch tasks raced for the same Message-ID, one row is
\* stored and one work item queued, and both tasks are done.
C17_Witness ==
    /\ \A f \in Fetchers : fetch_pc[f] = "done"
    /\ \E id \in MessageIds : Rows(id) = 1 /\ WorkItems(id) = 1
    /\ fetches = 2
    /\ \E f \in Fetchers : created[f] = <<>>

\* changes of the message status the status diagram allows going forward
Forward ==
    {<<"new", "processing">>}
        \cup {<<"processing", t>> :
                 t \in {"pending_review", "escalated", "replied", "closed", "spam"}}

\* the failure handler of a work item saves the message
Recovers == \E w \in Workers : pc[w] = "handler_save" /\ pc'[w] = "done"

\* C18: every change of the message status goes forward in the status
\* diagram, or is processing -> new made by the failure handler.
C18_StatusDiagram ==
    [][email'.status # email.status =>
          \/ <<email.status, email'.status>> \in Forward
          \/ /\ <<email.status, email'.status>> = <<"processing", "new">>
             /\ Recovers]_vars

\* C19: a draft is saved as sent only when its stored status was approved.
C19_SentFromApproved ==
    [][\A id \in DOMAIN replies :
          (replies'[id].status = "sent" /\ replies[id].status # "sent")
              => replies[id].status = "approved"]_vars

\* C20: no AI draft that was ever saved as rejected is sent.
C20_RejectedNeverSent ==
    \A id \in was_rejected :
        replies[id].source = "ai" => replies[id].status # "sent"

\* C21: sent is a terminal draft status: a draft whose stored status is sent
\* keeps that status in every later state.
C21_SentTerminal ==
    [][\A id \in DOMAIN replies :
          replies[id].status = "sent" => replies'[id].status = "sent"]_vars

\* the worker's send_reply call raises and the invocation ends
SendFails(w) == pc[w] = "send" /\ pc'[w] = "done"

\* C22: when send_reply fails on the auto-send path, the stored draft stays
\* approved with no sent timestamp, the step leaves the message as it is and
\* mails nothing, one auto_send failed entry with the error text is appended,
\* and the work item is not put back in the queue.
C22_SendFailureKept ==
    /\ [](\A w \in Workers :
             send_result[w] = "failed" =>
                 /\ replies[reply[w].id].status = "approved"
                 /\ ~replies[reply[w].id].sent_at)
    /\ [][\A w \in Workers :
             SendFails(w) =>
                 /\ send_result'[w] = "failed"
                 /\ email' = email
                 /\ outbox' = outbox
                 /\ queue' = queue
                 /\ log' = LogCreate(log, "auto_send", "failed", "smtp_error")]_vars

\* an auto-send failed and its invocation has ended
C22_Witness ==
    \E w \in Workers :
        /\ pc[w] = "done"
        /\ send_result[w] = "failed"
        /\ log[<<"auto_send", "failed", "smtp_error">>] = 1
        /\ BagToSet(queue) = {}

\* the worker approved its draft and send_reply has not yet returned or raised
AutoSending(w) == pc[w] = "send"

\* C23: on the auto-send path the message is processing from the approval of
\* the draft until send_reply succeeds; the success saves the draft as sent,
\* and then the message as replied while the draft is already sent.
C23_ProcessingUntilSent ==
    /\ [](\A w \in Workers : AutoSending(w) => email.status = "processing")
    /\ [][\A w \in Workers :
             /\ (AutoSending(w) /\ pc'[w] = "sent_email_save")
                    => replies'[reply[w].id].status = "sent"
             /\ (pc[w] = "sent_email_save" /\ pc'[w] = "done")
                    => /\ email'.status = "replied"
                       /\ replies[reply[w].id].status = "sent"]_vars

\* failed entries of the audit trail, of the pipeline and of the auto-send
AuditedErrors(l) == FailedEntries(l) + l[<<"auto_send", "failed", "smtp_error">>]

\* C24: every error met while handling the message has its audit entry: once
\* no worker is inside the failure handler, the audit trail has at least as
\* many failed entries as collaborators have failed.
C24_EveryErrorAudited ==
    (\A w \in Workers : pc[w] \notin {"handler_get", "handler_save"})
        => faults <= AuditedErrors(log)

\* the failure handler of a work item whose notification hand-off raised saves
\* the message
HandOffRecovers ==
    \E w \in Workers :
        pc[w] = "handler_save" /\ err[w] = "broker_error" /\ pc'[w] = "done"

\* C29: a run of the notification task calls send_notification for every
\* active staff recipient whatever the earlier calls returned, and no
\* notification failure, the failed hand-off of the notification work
\* included, takes the message out of escalated.
C29_NotificationBestEffort ==
    /\ [][(notify_pc = "loop" /\ notify_pc' = "idle") => Len(notified') = admins]_vars
    /\ [][(notify_pc = "loop" /\ notified' # notified /\ email.status = "escalated")
             => email'.status = "escalated"]_vars
    /\ [][(HandOffRecovers /\ email.status = "escalated")
             => email'.status = "escalated"]_vars

\* number of audit entries whose key is in K
RECURSIVE Total(_, _)
Total(l, K) ==
    IF K = {} THEN 0
    ELSE LET k == CHOOSE x \in K : TRUE IN l[k] + Total(l, K \ {k})

\* number of audit entries of the step with one of the statuses
Entries(l, step, statuses) ==
    Total(l, {k \in LogKeys : k[1] = step /\ k[2] \in statuses})

\* the steps audit entries are written for
Steps == {k[1] : k \in LogKeys}

\* C25: in the audit trail of the message every completed or failed entry of
\* a step has a started entry of that step before it, and when no attempt is
\* running every started entry of a step has its completed or failed entry.
C25_StartedThenEnded ==
    \A step \in Steps :
        /\ Entries(log, step, {"completed", "failed"}) <= Entries(log, step, {"started"})
        /\ (\A w \in Workers : Free(w))
              => Entries(log, step, {"started"})
                    <= Entries(log, step, {"completed", "failed"})

\* the worker's query has just returned
Selects(w) == kb_pc[w] \in {"idle", "done"} /\ kb_pc'[w] = "generate"

\* the stored rows that are active and of the category
ActiveOf(c) == {id \in DOMAIN kb : kb[id].is_active /\ kb[id].category = c}

\* C26: the articles handed to generate_reply are active articles of the
\* category assigned to the message, each once, in descending order of the
\* usage counter, as many as there are up to the limit of three and none with
\* a smaller counter than one left out; none when no category is assigned.
C26_SelectedArticles ==
    [][\A w \in Workers :
          Selects(w) =>
              LET q == kb_articles'[w]
                  c == kb_category'[w]
                  ids == {q[i].id : i \in DOMAIN q}
                  n == Cardinality(ActiveOf(c))
              IN /\ ids \subseteq ActiveOf(c)
                 /\ Cardinality(ids) = Len(q)
                 /\ Len(q) = IF n < 3 THEN n ELSE 3
                 /\ \A i, j \in DOMAIN q :
                       i < j => kb[q[i].id].use_count >= kb[q[j].id].use_count
                 /\ \A id \in ActiveOf(c) \ ids :
                       \A i \in DOMAIN q : kb[id].use_count <= kb[q[i].id].use_count
                 /\ c = "none" => q = <<>>]_vars

\* four active articles of the category, the three handed over led by one
\* with the larger counter and ended by one with the smaller
C26_Witness ==
    /\ kb_pc[1] = "generate"
    /\ Len(kb_articles[1]) = 3
    /\ Cardinality(ActiveOf(kb_category[1])) = 4
    /\ kb[kb_articles[1][1].id].use_count = 1
    /\ kb[kb_articles[1][3].id].use_count = 0

\* C27: once no work item is at the reply generation, every article's stored
\* usage counter is its initial value plus the number of generate_reply calls
\* that returned and used it.
C27_CountedOncePerUse ==
    (\A w \in Workers : kb_pc[w] \in {"idle", "done"})
        => \A id \in DOMAIN kb :
              kb[id].use_count = kb0[id].use_count + credited[id]

\* C28: no step lowers the stored usage counter of an article.
C28_UseCountMonotonic ==
    [][\A id \in DOMAIN kb : kb'[id].use_count >= kb[id].use_count]_vars

\* confidences are kept in hundredths: [0, 1] is 0..100
InRange(c) == c \in 0..100

\* C30: every classification confidence stored on the message and every AI
\* confidence stored on a draft lies in [0, 1].
C30_ConfidenceInRange ==
    /\ email.ai_classification_confidence # -1
          => InRange(email.ai_classification_confidence)
    /\ \A id \in DOMAIN replies :
          replies[id].source = "ai" => InRange(replies[id].ai_confidence)

\* a step of classify_email or of generate_reply: the request or the return
AgentCallStep ==
    /\ method' \in {"classify_email", "generate_reply"}
    /\ method' # method \/ answer' # answer

\* C31: no step of classify_email or generate_reply changes a stored row:
\* the message, the drafts, the knowledge articles, the audit entries and the
\* ingested messages are as they were before the step.
C31_CallsLeaveRows ==
    [][AgentCallStep => UNCHANGED <<email, replies, kb, log, stored>>]_vars

\* generate_reply returned a result and no row has been written
C31_Witness ==
    /\ method = "generate_reply"
    /\ answer # NoAnswer
    /\ ~result.raised
    /\ result.value.confidence = 81
    /\ replies = <<>>
    /\ email.ai_classification_confidence = -1

\* the text is the JSON object inside one code fence, white space around it
\* or not
FencedJson(text) ==
    LET t == SelectSeq(text, NotSpace)
    IN /\ Len(t) = 3
       /\ t[1] \in {"fence_open", "fence_open_bare"}
       /\ t[2] = "J"
       /\ t[3] = "fence_close"

\* C32: on an answer that is the JSON object inside a code fence, classify_email
\* and generate_reply return what they return on the object alone: the values
\* of the object, without raising.
C32_FencedSameAsBare ==
    /\ (Answered("classify_email") /\ FencedJson(answer.text))
          => result = classify_email([answer EXCEPT !.text = <<"J">>])
    /\ (Answered("generate_reply") /\ FencedJson(answer.text))
          => ~result.raised /\ result.value = answer.value

\* the non-empty names available for the message
AvailableNames == {extracted_name.name, from_name} \ {<<>>}

\* C33: the reply generate_reply returns starts with a greeting line: one with
\* a name of the customer when the extracted name or the sender name is not
\* empty, the generic one only when both are.
C33_Greeting ==
    (Answered("generate_reply") /\ ~result.raised)
        => IF AvailableNames # {}
           THEN \E name \in AvailableNames :
                   StartsAt(result.reply, 1,
                            <<"D", "e", "a", "r", " ">> \o name \o <<",", "\n">>)
           ELSE StartsAt(result.reply, 1, <<"H", "e", "l", "l", "o", ",", "\n">>)

\* no work item on the message is waiting, being retried or running
AllFinished == BagToSet(queue) = {} /\ \A w \in Workers : Free(w)

\* C34: once the work item on the message and all its retries have finished,
\* the message is not left processing: it is new, pending_review, escalated or
\* replied.
C34_FinishedNotProcessing ==
    AllFinished => email.status \in {"new", "pending_review", "escalated", "replied"}

\* a step of a run of process_email_task that has loaded the message
RunStep == \E w \in Workers : ~Free(w) /\ pc'[w] # pc[w]

\* C35: a status an operator saves through the API (escalate, mark_spam,
\* assign) while a run of process_email_task is in flight is not overwritten by
\* a later write of that run.
C35_OperatorStatusKept ==
    [][(RunStep /\ operator_status # "" /\ email.status = operator_status)
          => email'.status = email.status]_vars

\* C37: the send endpoint on a draft whose status is not approved answers with
\* an error and changes nothing: no row, nothing sent, nothing handed to
\* send_reply.
C37_SendNeedsApproved ==
    [][\A id \in Ids :
          (response' # response /\ response'.action = "send" /\ response'.id = id
             /\ sending = 0 /\ replies[id].status # "approved")
          => /\ response'.status = 400
             /\ UNCHANGED <<email, replies, outbox, sending, queue, log>>]_vars

\* a send request on a draft that was rejected has been answered
C37_Witness ==
    /\ response.action = "send" /\ response.status = 400
    /\ replies[response.id].status = "rejected"

\* C38: the review action modify creates exactly one new draft, with source
\* ai_modified and status approved, and saves the original as rejected; when
\* the immediate send of the new draft fails, the original is still rejected
\* and the new draft still approved and unsent.
C38_ModifyCreatesOne ==
    /\ [][(sending = 0 /\ response' # response /\ response'.action = "modify")
            => /\ Len(replies') = Len(replies) + 1
               /\ response'.reply = Len(replies')
               /\ \A id \in Ids \ {response'.id} : replies'[id] = replies[id]]_vars
    /\ [](response.action = "modify"
            => /\ replies[response.id].status = "rejected"
               /\ replies[response.reply].source = "ai_modified"
               /\ response.status = 200
                     => replies[response.reply].status \in {"approved", "sent"}
               /\ response.status \in {0, 500}
                     => /\ replies[response.reply].status = "approved"
                        /\ ~replies[response.reply].sent_at)

\* the immediate send of a modified draft has failed
C38_Witness ==
    /\ response.action = "modify" /\ response.status = 500
    /\ replies[response.id].status = "rejected"
    /\ replies[response.reply].status = "approved"

\* no run of fetch_emails_task is in flight and none is waiting for its retry
FetchesFinished == \A f \in Fetchers : fetch_pc[f] \in {"idle", "done"}

\* C36: every message the fetcher created is queued for processing exactly
\* once, also when a run failed after it created records and was retried.
C36_QueuedOnce ==
    FetchesFinished
        => \A k \in 1..Len(stored) : CopiesIn(stored[k].message_id, queued) = 1

====
